---- MODULE Spec2Model ----
(***************************************************************************)
(* CarbOnSeer autoscaler (src/autoscaler/autoscaler.py).                   *)
(*                                                                         *)
(* Two threads share the carbon cache and the fallback table:              *)
(*   - the control loop (run_loop), which measures the p95 latency,        *)
(*     resolves the carbon intensity of region "local" (get_carbon),       *)
(*     scores, reads the replica count, decides and patches;               *)
(*   - the HTTP handler of POST /update_carbon (ReqHandler.do_POST).       *)
(* Neither takes a lock, so each access to the shared dictionaries is a    *)
(* step of its own and the steps of the two threads interleave freely.     *)
(*                                                                         *)
(* Optional values (Python's None) are sequences of length 0 or 1.         *)
(* Time is a discrete clock; scores are in thousandths.                    *)
(***************************************************************************)
EXTENDS Integers, Sequences, FiniteSets, TLC

\* ------------------------------------------------------------------ bounds
MaxTime == 2
MaxTTL == 1
MaxRep == 4

\* ------------------------------------------------------- program constants
slo_p95_ms == 200
default_carbon == 300
cost_per_replica_milli == 20
cost_norm_max_milli == 1000

None == <<>>
Some(v) == <<v>>

Regions == {"local", "eu"}
LoopRegion == "local"
UpdatePath == "/update_carbon"

\* Inputs of the environment.
Latencies == {100, 120, 200, 250, 700, 1199, 1200, 1300}
ReplicaCfgs == {<<1, 3>>, <<2, 3>>}
\* A configuration file whose bounds are the wrong way round.
BadReplicaCfgs == {<<3, 1>>}
StartupMaps == {[r \in Regions |-> None],
                [r \in Regions |-> IF r = "local" THEN Some(450) ELSE None]}
EmValues == {100}
WtValues == {200}
IngestValues == {50}
\* Readings float() accepts that lie outside the 0..1000 band.
OutOfBandValues == {-200, 1200}

\* Line 44: the default weights, in tenths.
Weights == [slo |-> 6, carbon |-> 3, cost |-> 1]
\* Weight triples and per-replica costs (in thousandths) a configuration
\* file can carry; the weights need not sum to 1.
WeightTriples == {Weights, [slo |-> 10, carbon |-> 10, cost |-> 10],
                  [slo |-> 0, carbon |-> 0, cost |-> 5]}
CostValues == {0, cost_per_replica_milli, 1500}

Min(a, b) == IF a < b THEN a ELSE b
Max(a, b) == IF a > b THEN a ELSE b

VARIABLES
  cfg,           \* the configuration loaded at startup (immutable)
  prom_up,       \* whether the metrics backend answers queries
  clock,         \* time.time()
  carbon_cache,  \* self._carbon_cache: region -> None | <<value, timestamp>>
  carbon_map,    \* self.carbon_map: region -> None | <<value>>
  replicas,      \* spec.replicas of the deployment, held by the orchestration API
  pc,            \* position of the control loop
  p95,           \* run_loop local p95
  gc,            \* locals of the running get_carbon call, with its call record
  scores,        \* run_loop local scores
  cur,           \* run_loop local cur
  newr,          \* run_loop local newr
  patched,       \* argument of the patch_replicas call of this cycle, if any
  hpc,           \* position of the HTTP handler
  hreq,          \* body of the update being stored by the handler
  resp,          \* status of the last response sent by the handler
  lastIngest,    \* history: last acknowledged update of region "local"
  lastLookup     \* history: time of the last cache miss of get_carbon

vars == <<cfg, prom_up, clock, carbon_cache, carbon_map, replicas, pc, p95, gc,
          scores, cur, newr, patched, hpc, hreq, resp, lastIngest, lastLookup>>

loopLocals == <<p95, gc, scores, cur, newr, patched>>
handlerVars == <<hpc, hreq, resp>>
shared == <<carbon_cache, carbon_map>>

GcIdle == [now |-> 0, val |-> None, src |-> "none", calledEm |-> FALSE,
           calledWt |-> FALSE, obs |-> None, expect |-> None, seq |-> FALSE]

\* ---------------------------------------------------------------- get_carbon

\* Line 126: "c and (now - c[1]) < self.cache_ttl".
IsFreshOffByOne(c, now, ttl) == c # None /\ (now - c[2]) < ttl - 1
IsFreshInclusive(c, now, ttl) == c # None /\ (now - c[2]) <= ttl
IsFresh(c, now, ttl) == c # None /\ (now - c[2]) < ttl

\* fetch_electricitymap: what the call returns for each response.
\*   <<"error">>        network error, HTTP error status or invalid JSON
\*   <<"data", v>>      {"data": {"carbonIntensity": v}}
\*   <<"flat", v>>      {"carbonIntensity": v}
\*   <<"nofield">>      a JSON object with none of the candidate fields
\* Under "data" the value is taken with "a or b", so a 0 counts as no value.
EmResponses == {<<"error">>, <<"nofield">>, <<"data", 0>>}
               \cup {<<"data", v>> : v \in EmValues} \cup {<<"flat", v>> : v \in EmValues}
FetchElectricitymap(r) ==
  CASE r[1] = "error" -> None
    [] r[1] = "nofield" -> None
    [] r[1] = "data" -> IF r[2] = 0 THEN None ELSE Some(r[2])
    [] r[1] = "flat" -> Some(r[2])

\* fetch_watttime_index: first of "moer", "index_value", "value".
WtResponses == {<<"error">>, <<"nofield">>}
               \cup {<<k, v>> : k \in {"moer", "index_value", "value"}, v \in WtValues}
FetchWatttime(r) ==
  CASE r[1] = "error" -> None
    [] r[1] = "nofield" -> None
    [] OTHER -> Some(r[2])

\* Line 145: self.carbon_map.get(region, self.cfg.get("default_carbon", 300)).
Fallback(map, region) ==
  IF map[region] # None
  THEN [val |-> map[region], src |-> "map"]
  ELSE [val |-> Some(default_carbon), src |-> "default"]

\* Lines 128-145: the provider chain followed by the fallback table.
ResolveChainWtFirst(c, emr, wtr, map, region) ==
  LET wv == IF c.wt_enabled THEN FetchWatttime(wtr) ELSE None
      ev == IF wv = None /\ c.em_enabled THEN FetchElectricitymap(emr) ELSE None
      fb == Fallback(map, region)
  IN [calledEm |-> wv = None /\ c.em_enabled, calledWt |-> c.wt_enabled,
      val |-> IF wv # None THEN wv ELSE IF ev # None THEN ev ELSE fb.val,
      src |-> IF wv # None THEN "wt" ELSE IF ev # None THEN "em" ELSE fb.src]
ResolveChain(c, emr, wtr, map, region) ==
  LET ev == IF c.em_enabled THEN FetchElectricitymap(emr) ELSE None
      wv == IF ev = None /\ c.wt_enabled THEN FetchWatttime(wtr) ELSE None
      fb == Fallback(map, region)
  IN [calledEm |-> c.em_enabled, calledWt |-> ev = None /\ c.wt_enabled,
      val |-> IF ev # None THEN ev ELSE IF wv # None THEN wv ELSE fb.val,
      src |-> IF ev # None THEN "em" ELSE IF wv # None THEN "wt" ELSE fb.src]

\* Line 147: self._carbon_cache[region] = (val, now).
CacheStoreProviderOnly(cache, region, g) ==
  IF g.src \in {"em", "wt"}
  THEN [cache EXCEPT ![region] = <<g.val[1], g.now>>]
  ELSE cache
CacheStore(cache, region, g) == [cache EXCEPT ![region] = <<g.val[1], g.now>>]

\* ------------------------------------------------------------ compute_scores
\* Lines 154-164, in thousandths; the combined score in ten-thousandths.
SloScoreUnclamped(l) ==
  IF l = None THEN 500
  ELSE IF l[1] <= slo_p95_ms THEN 1000
  ELSE 1000 - ((l[1] - slo_p95_ms) * 1000) \div (slo_p95_ms * 5)
SloScore(l) ==
  IF l = None THEN 500
  ELSE IF l[1] <= slo_p95_ms THEN 1000
  ELSE Max(0, 1000 - ((l[1] - slo_p95_ms) * 1000) \div (slo_p95_ms * 5))
CarbonScore(c) == Max(0, 1000 - c)
CostScore(cost) == 1000 - Min(1000, (cost * 1000) \div Max(1, cost_norm_max_milli))
ComputeScores(l, c, w, cost) ==
  [slo |-> SloScore(l), carbon |-> CarbonScore(c), cost |-> CostScore(cost),
   combined |-> w.slo * SloScore(l) + w.carbon * CarbonScore(c)
                + w.cost * CostScore(cost),
   carbon_g |-> c]

\* ------------------------------------------------------------------ run_loop
\* Lines 233-239: the step policy. p95 < slo * 0.6 is 10 * p95 < 6 * slo.
DecideInclusive(l, c, lo, hi) ==
  IF l # None /\ l[1] >= slo_p95_ms /\ c < hi THEN Min(hi, c + 1)
  ELSE IF l # None /\ 10 * l[1] < 6 * slo_p95_ms /\ c > lo THEN Max(lo, c - 1)
  ELSE c
Decide(l, c, lo, hi) ==
  IF l # None /\ l[1] > slo_p95_ms /\ c < hi THEN Min(hi, c + 1)
  ELSE IF l # None /\ 10 * l[1] < 6 * slo_p95_ms /\ c > lo THEN Max(lo, c - 1)
  ELSE c

\* Lines 224-239: the decision is taken with the cycle's scores sc in scope
\* and does not read them.
PolicyCarbonAware(l, c, lo, hi, sc) ==
  IF sc.carbon < 600 THEN Min(c, Decide(l, c, lo, hi)) ELSE Decide(l, c, lo, hi)
Policy(l, c, lo, hi, sc) == Decide(l, c, lo, hi)

\* Lines 229-232: where the loop goes when reading the replica count fails.
OnReadErrorSkipSleep == "measure"
OnReadError == "sleep"

\* Lines 241-246: where the loop goes after the patch attempt.
OnPatchDoneReread == "read"
OnPatchDone == "sleep"

\* Line 240: "if newr != cur".
ShouldPatchOnIncrease(n, c) == n > c
ShouldPatch(n, c) == n # c

\* ------------------------------------------------------------------- do_POST
\* A request body: not JSON, JSON that is no object, or an object whose
\* "region" and "carbon" members are absent (<<>>) or carry a JSON value.
RegionFields == {<<>>, <<"list">>} \cup {<<"str", r>> : r \in Regions}
CarbonFields == {<<>>, <<"null">>, <<"text">>}
                \cup {<<"num", v>> : v \in IngestValues}
                \cup {<<"numstr", v>> : v \in IngestValues}
Bodies == {<<"garbage">>, <<"array">>}
          \cup {<<"object", rf, cf>> : rf \in RegionFields, cf \in CarbonFields}
Requests == [path : {UpdatePath}, body : Bodies]
            \cup [path : {"/other"}, body : {<<"object", <<"str", "local">>, <<"num", v>>>> : v \in IngestValues}]

\* Line 195: float(j.get("carbon")).
ToFloat(cf) ==
  IF cf # <<>> /\ cf[1] \in {"num", "numstr"} THEN Some(cf[2]) ELSE None

\* Line 194: j.get("region", "local"); a list is no dictionary key (line 197).
RegionKeyRequired(rf) ==
  IF rf # <<>> /\ rf[1] = "str" THEN Some(rf[2]) ELSE None
RegionKey(rf) ==
  IF rf = <<>> THEN Some("local")
  ELSE IF rf[1] = "str" THEN Some(rf[2])
  ELSE None

\* Lines 193-197: the update a body stands for, None when an exception is
\* raised before anything is written.
ParseUpdate(b) ==
  IF b[1] # "object" THEN None
  ELSE IF ToFloat(b[3]) = None \/ RegionKey(b[2]) = None THEN None
  ELSE Some([region |-> RegionKey(b[2])[1], carbon |-> ToFloat(b[3])[1]])

\* Line 197: parent.carbon_map[region] = carbon.
MapAfterIngestLoopRegion(map, u) == [map EXCEPT ![LoopRegion] = Some(u.carbon)]
MapAfterIngest(map, u) == [map EXCEPT ![u.region] = Some(u.carbon)]

\* Line 198: parent._carbon_cache[region] = (carbon, time.time()).
CacheAfterIngestMapOnly(cache, u, now) == cache
CacheAfterIngest(cache, u, now) == [cache EXCEPT ![u.region] = <<u.carbon, now>>]

\* ---------------------------------------------------------------------- Init
Cfgs == [complete : BOOLEAN,
         min_replicas : {rc[1] : rc \in ReplicaCfgs \cup BadReplicaCfgs},
         max_replicas : {rc[2] : rc \in ReplicaCfgs \cup BadReplicaCfgs},
         weights : WeightTriples,
         cost_per_replica : CostValues,
         cache_ttl : 0..MaxTTL,
         em_enabled : BOOLEAN,
         wt_enabled : BOOLEAN,
         carbon_map : StartupMaps,
         http_enabled : BOOLEAN]

Init ==
  /\ cfg \in Cfgs
  /\ <<cfg.min_replicas, cfg.max_replicas>> \in ReplicaCfgs \cup BadReplicaCfgs
  /\ prom_up \in BOOLEAN
  /\ clock = 0
  /\ carbon_cache = [r \in Regions |-> None]
  /\ carbon_map = cfg.carbon_map
  /\ replicas \in 0..MaxRep
  /\ pc = IF cfg.complete THEN "measure" ELSE "exit"
  /\ p95 = None
  /\ gc = GcIdle
  /\ scores = None
  /\ cur = None
  /\ newr = None
  /\ patched = None
  /\ hpc = "idle"
  /\ hreq = None
  /\ resp = None
  /\ lastIngest = None
  /\ lastLookup = None

\* The update endpoint and the carbon providers switched off in the
\* configuration; the metrics backend up.
InitScale ==
  /\ Init
  /\ cfg.complete
  /\ <<cfg.min_replicas, cfg.max_replicas>> \in ReplicaCfgs
  /\ cfg.weights = Weights /\ cfg.cost_per_replica = cost_per_replica_milli
  /\ ~cfg.http_enabled /\ ~cfg.em_enabled /\ ~cfg.wt_enabled
  /\ cfg.carbon_map[LoopRegion] # None
  /\ prom_up

\* The update endpoint on, every provider configuration; the metrics backend
\* down (query_p95 returns None), so the loop never asks for a patch.
InitCarbon ==
  /\ Init
  /\ cfg.complete
  /\ cfg.weights = Weights /\ cfg.cost_per_replica = cost_per_replica_milli
  /\ cfg.http_enabled
  /\ <<cfg.min_replicas, cfg.max_replicas>> = <<1, 3>>
  /\ ~prom_up
  /\ replicas = cfg.min_replicas

\* ------------------------------------------------------------------ run_loop
\* Lines 56-65, 221-223: query_p95.
Measure ==
  /\ pc = "measure"
  /\ p95' \in (IF prom_up THEN {Some(l) : l \in Latencies} ELSE {}) \cup {None}
  /\ pc' = "resolve"
  /\ UNCHANGED <<cfg, prom_up, clock, shared, replicas, gc, scores, cur, newr,
                 patched, handlerVars, lastIngest, lastLookup>>

\* Lines 224, 153-159, 122-127: compute_scores calls get_carbon, which takes
\* the time, reads the cache entry and returns it when it is fresh.
GcStart ==
  /\ pc = "resolve"
  /\ LET c == carbon_cache[LoopRegion]
         g == [GcIdle EXCEPT
                 !.now = clock,
                 !.expect = IF lastIngest # None /\ clock - lastIngest[2] < cfg.cache_ttl
                            THEN Some(lastIngest[1]) ELSE None,
                 !.seq = /\ hpc = "idle"
                         /\ lastIngest # None
                         /\ lastIngest[2] = clock
                         /\ lastIngest[3]]
     IN IF IsFresh(c, clock, cfg.cache_ttl)
        THEN /\ gc' = [g EXCEPT !.val = Some(c[1]), !.src = "cache", !.obs = Some(c[2])]
             /\ pc' = "score"
             /\ lastLookup' = lastLookup
        ELSE /\ gc' = g
             /\ pc' = "fetch"
             /\ lastLookup' = Some(clock)
  /\ UNCHANGED <<cfg, prom_up, clock, shared, replicas, p95, scores, cur, newr,
                 patched, handlerVars, lastIngest>>

\* Lines 128-145: the providers in order, then the fallback table.
GcFetch ==
  /\ pc = "fetch"
  /\ \E emr \in EmResponses, wtr \in WtResponses :
       LET res == ResolveChain(cfg, emr, wtr, carbon_map, LoopRegion)
       IN gc' = [gc EXCEPT !.val = res.val, !.src = res.src,
                           !.calledEm = res.calledEm, !.calledWt = res.calledWt]
  /\ pc' = "write"
  /\ UNCHANGED <<cfg, prom_up, clock, shared, replicas, p95, scores, cur, newr,
                 patched, handlerVars, lastIngest, lastLookup>>

\* Lines 146-148: cache the value and return it.
GcWrite ==
  /\ pc = "write"
  /\ carbon_cache' = CacheStore(carbon_cache, LoopRegion, gc)
  /\ pc' = "score"
  /\ UNCHANGED <<cfg, prom_up, clock, carbon_map, replicas, loopLocals,
                 handlerVars, lastIngest, lastLookup>>

\* Lines 160-164, 225-226: the scores of the returned carbon value.
Score ==
  /\ pc = "score"
  /\ scores' = Some(ComputeScores(p95, gc.val[1], cfg.weights, cfg.cost_per_replica))
  /\ gc' = GcIdle
  /\ pc' = "read"
  /\ UNCHANGED <<cfg, prom_up, clock, shared, replicas, p95, cur, newr, patched,
                 handlerVars, lastIngest, lastLookup>>

\* Lines 227-232: get_current_replicas, or the exception path to the sleep.
Read ==
  /\ pc = "read"
  /\ \/ cur' = Some(replicas) /\ pc' = "decide"
     \/ cur' = None /\ pc' = OnReadError
  /\ UNCHANGED <<cfg, prom_up, clock, shared, replicas, p95, gc, scores, newr,
                 patched, handlerVars, lastIngest, lastLookup>>

\* Lines 233-240: the decision and whether to patch.
Step ==
  /\ pc = "decide"
  /\ newr' = Some(Policy(p95, cur[1], cfg.min_replicas, cfg.max_replicas, scores[1]))
  /\ pc' = IF ShouldPatch(newr'[1], cur[1]) THEN "patch" ELSE "sleep"
  /\ UNCHANGED <<cfg, prom_up, clock, shared, replicas, p95, gc, scores, cur,
                 patched, handlerVars, lastIngest, lastLookup>>

\* Lines 241-244, 171-176: patch_replicas, which the API applies or refuses.
Patch ==
  /\ pc = "patch"
  /\ patched' = newr
  /\ \/ replicas' = newr[1]
     \/ replicas' = replicas
  /\ pc' = OnPatchDone
  /\ UNCHANGED <<cfg, prom_up, clock, shared, p95, gc, scores, cur, newr,
                 handlerVars, lastIngest, lastLookup>>

\* Lines 231, 245-246: the end of the cycle; its locals are dead.
Sleep ==
  /\ pc = "sleep"
  /\ pc' = "measure"
  /\ p95' = None /\ gc' = GcIdle /\ scores' = None
  /\ cur' = None /\ newr' = None /\ patched' = None
  /\ UNCHANGED <<cfg, prom_up, clock, shared, replicas, handlerVars, lastIngest,
                 lastLookup>>

\* ------------------------------------------------------------------- do_POST
GcInFlight == pc \in {"fetch", "write"}

\* Lines 187-197, 202-204: the request is refused (404, 400) or its update is
\* written into carbon_map.
Post(r) ==
  /\ cfg.complete
  /\ cfg.http_enabled
  /\ hpc = "idle"
  /\ IF r.path # UpdatePath
     THEN /\ resp' = Some(404)
          /\ UNCHANGED <<shared, hpc, hreq, gc>>
     ELSE IF ParseUpdate(r.body) = None
     THEN /\ resp' = Some(400)
          /\ UNCHANGED <<shared, hpc, hreq, gc>>
     ELSE /\ carbon_map' = MapAfterIngest(carbon_map, ParseUpdate(r.body)[1])
          /\ hpc' = "store"
          /\ hreq' = r.body
          /\ resp' = None
          /\ gc' = IF GcInFlight THEN [gc EXCEPT !.seq = FALSE] ELSE gc
          /\ UNCHANGED carbon_cache
  /\ UNCHANGED <<cfg, prom_up, clock, replicas, pc, p95, scores, cur, newr,
                 patched, lastIngest, lastLookup>>

\* Lines 198-201: the cache entry is written and the update acknowledged.
PostStore ==
  /\ hpc = "store"
  /\ LET u == ParseUpdate(hreq)[1]
     IN /\ carbon_cache' = CacheAfterIngest(carbon_cache, u, clock)
        /\ lastIngest' = IF u.region = LoopRegion
                         THEN <<u.carbon, clock, ~GcInFlight>>
                         ELSE lastIngest
  /\ resp' = Some(200)
  /\ hpc' = "idle"
  /\ hreq' = None
  /\ gc' = IF GcInFlight THEN [gc EXCEPT !.seq = FALSE] ELSE gc
  /\ UNCHANGED <<cfg, prom_up, clock, carbon_map, replicas, pc, p95, scores,
                 cur, newr, patched, lastLookup>>

\* --------------------------------------------------------------- environment
\* Somebody else scales the deployment.
ManualScale ==
  /\ \E n \in 0..MaxRep : n # replicas /\ replicas' = n
  /\ UNCHANGED <<cfg, prom_up, clock, shared, pc, loopLocals, handlerVars,
                 lastIngest, lastLookup>>

Tick ==
  /\ clock < MaxTime
  /\ clock' = clock + 1
  /\ UNCHANGED <<cfg, prom_up, shared, replicas, pc, loopLocals, handlerVars,
                 lastIngest, lastLookup>>

LoopNext == Measure \/ GcStart \/ GcFetch \/ GcWrite \/ Score \/ Read \/ Step \/ Sleep

Next == LoopNext \/ Patch \/ ManualScale \/ (\E r \in Requests : Post(r)) \/ PostStore \/ Tick

NextScale == LoopNext \/ Patch \/ ManualScale \/ Tick

NextCarbon == LoopNext \/ (\E r \in Requests : Post(r)) \/ PostStore \/ Tick

Spec == Init /\ [][Next]_vars

SpecScale == InitScale /\ [][NextScale]_vars

SpecCarbon == InitCarbon /\ [][NextCarbon]_vars

\* The control loop alone against the orchestration API, nobody else scaling
\* the deployment; every step of the loop is eventually taken, and reads and
\* patches, which can fail any number of times, eventually succeed.
NextLive == LoopNext \/ Patch \/ Tick

SpecLive ==
  /\ InitScale
  /\ [][NextLive]_vars
  /\ WF_vars(LoopNext)
  /\ WF_vars(Patch)
  /\ SF_vars(Read /\ cur' # None)
  /\ SF_vars(Patch /\ replicas' = newr[1])

\* The scorer fed by the loop and by the update endpoint: every weight triple
\* and per-replica cost, the providers off, readings inside and outside the
\* 0..1000 band posted for the loop's region.
ScoreRequests ==
  [path : {UpdatePath},
   body : {<<"object", <<"str", LoopRegion>>, <<"num", v>>>> :
             v \in IngestValues \cup OutOfBandValues}]

InitScore ==
  /\ Init
  /\ cfg.complete
  /\ cfg.http_enabled /\ ~cfg.em_enabled /\ ~cfg.wt_enabled
  /\ cfg.carbon_map[LoopRegion] = None
  /\ cfg.cache_ttl = MaxTTL
  /\ <<cfg.min_replicas, cfg.max_replicas>> = <<1, 3>>
  /\ prom_up
  /\ replicas = cfg.min_replicas

NextScore == LoopNext \/ Patch \/ (\E r \in ScoreRequests : Post(r)) \/ PostStore

SpecScore == InitScore /\ [][NextScore]_vars

\* Startup on any configuration file: complete or lacking a required key
\* (lines 32, 46 raise KeyError), replica bounds in either order.
InitStartup ==
  /\ Init
  /\ cfg.weights = Weights /\ cfg.cost_per_replica = cost_per_replica_milli
  /\ ~cfg.http_enabled /\ ~cfg.em_enabled /\ ~cfg.wt_enabled
  /\ cfg.carbon_map[LoopRegion] # None
  /\ cfg.cache_ttl = 0
  /\ prom_up

SpecStartup == InitStartup /\ [][NextScale]_vars

\* Both threads with the metrics backend up: the loop scales while updates
\* for either region arrive. Every step of the loop is eventually taken.
OrderRequests ==
  [path : {UpdatePath},
   body : {<<"object", <<"str", r>>, <<"num", v>>>> : r \in Regions, v \in IngestValues}]

InitOrder ==
  /\ Init
  /\ cfg.complete
  /\ cfg.weights = Weights /\ cfg.cost_per_replica = cost_per_replica_milli
  /\ cfg.http_enabled /\ ~cfg.wt_enabled
  /\ cfg.carbon_map[LoopRegion] = None
  /\ cfg.cache_ttl = MaxTTL
  /\ <<cfg.min_replicas, cfg.max_replicas>> = <<1, 3>>
  /\ prom_up
  /\ replicas = cfg.min_replicas

NextOrder == LoopNext \/ Patch \/ (\E r \in OrderRequests : Post(r)) \/ PostStore \/ Tick

SpecOrder ==
  /\ InitOrder
  /\ [][NextOrder]_vars
  /\ WF_vars(LoopNext)
  /\ WF_vars(Patch)

\* The handler thread on its own, the control loop blocked in query_p95.
NextHttp == (\E r \in Requests : Post(r)) \/ PostStore \/ Tick

SpecHttp == InitCarbon /\ [][NextHttp]_vars

\* ================================================================== claims
Returned == pc = "score"
FromFallback == gc.src \in {"map", "default"}
StartupFallback ==
  IF cfg.carbon_map[LoopRegion] # None THEN cfg.carbon_map[LoopRegion]
  ELSE Some(default_carbon)

\* C1: every replica count passed to patch_replicas lies within
\* [min_replicas, max_replicas], whatever count the orchestration API reported.
C1_PatchWithinBounds ==
  patched # None =>
    (cfg.min_replicas <= patched[1] /\ patched[1] <= cfg.max_replicas)

\* C2: the decision of a cycle is the step policy: cur + 1 when the latency is
\* present, above the target and cur < max_replicas; else cur - 1 when it is
\* present, below 0.6 * target and cur > min_replicas; else cur. It is cur when
\* the latency is absent or within [0.6 * target, target], and it never
\* differs from cur by more than one.
C2_StepPolicy ==
  newr # None =>
    LET c == cur[1]
        n == newr[1]
        up == p95 # None /\ p95[1] > slo_p95_ms /\ c < cfg.max_replicas
        down == p95 # None /\ 10 * p95[1] < 6 * slo_p95_ms /\ c > cfg.min_replicas
        inBand == p95 # None /\ 6 * slo_p95_ms <= 10 * p95[1] /\ p95[1] <= slo_p95_ms
    IN /\ n = (IF up THEN c + 1 ELSE IF down THEN c - 1 ELSE c)
       /\ (p95 = None \/ inBand) => n = c
       /\ n - c \in {-1, 0, 1}
C2_Witness ==
  /\ pc = "patch" /\ p95 = Some(100)
  /\ cur = Some(cfg.max_replicas) /\ newr = Some(cfg.max_replicas - 1)

\* C3: a patch call is issued in a cycle exactly when the decided count
\* differs from the count read in that cycle, so a cycle whose read already
\* equals its decision issues none.
C3_PatchIffChanged ==
  /\ patched # None => (newr # None /\ newr[1] # cur[1] /\ patched = newr)
  /\ (pc = "sleep" /\ newr # None /\ newr[1] # cur[1]) => patched # None
C3_Witness ==
  /\ pc = "sleep" /\ p95 = Some(250)
  /\ cur = Some(cfg.max_replicas) /\ newr = cur /\ patched = None

\* C4: a get_carbon call that starts after an update of its region has been
\* acknowledged, and within cache_ttl_seconds of it, returns the ingested
\* value, under every interleaving of the handler with the control loop.
C4_IngestOverrides ==
  (Returned /\ gc.expect # None) => gc.val = gc.expect

\* C5 as stated: with no concurrent activity, an accepted update followed
\* immediately by get_carbon returns the ingested value, for every
\* cache_ttl_seconds >= 0 and every provider configuration.
C5_IngestThenResolve ==
  (Returned /\ gc.seq) => gc.val = Some(lastIngest[1])

\* C5 amended: the same for every cache_ttl_seconds > 0; with
\* cache_ttl_seconds = 0 the entry is never fresh and the ingested value is
\* returned only when no provider yields a value.
C5_IngestThenResolveFresh ==
  (Returned /\ gc.seq /\ (cfg.cache_ttl > 0 \/ gc.src \notin {"em", "wt"}))
    => gc.val = Some(lastIngest[1])
C5_Witness ==
  /\ Returned /\ gc.seq /\ cfg.cache_ttl > 0
  /\ cfg.em_enabled /\ lastLookup # None
  /\ gc.val = Some(lastIngest[1])

\* The providers are tried in the order electricitymap, watttime, and the
\* fallback table is read only when neither yielded a value.
ProviderOrder ==
  (Returned /\ gc.src # "cache") =>
    /\ gc.calledEm = cfg.em_enabled
    /\ gc.calledWt = (cfg.wt_enabled /\ gc.src # "em")
    /\ gc.src = "em" => gc.calledEm
    /\ gc.src = "wt" => gc.calledWt

\* C6 as stated: on a cache miss electricitymap is tried first and watttime
\* only if it is disabled or yielded nothing; when no provider yields a value
\* the result is the carbon_map value configured at startup, or
\* default_carbon if the region is absent from that table.
C6_FallbackIsStartupValue ==
  /\ ProviderOrder
  /\ (Returned /\ FromFallback) => gc.val = StartupFallback

\* C6 amended: the same order; when no provider yields a value the result is
\* the region's carbon_map value at the time of the lookup, which is the
\* startup value until an update of the region is accepted and the carbon of
\* the last accepted update from then on, or default_carbon if the region is
\* in the table neither from startup nor from an update.
C6_FallbackIsCurrentTable ==
  /\ [](ProviderOrder)
  /\ [](carbon_map[LoopRegion] \in
          {cfg.carbon_map[LoopRegion]} \cup {Some(v) : v \in IngestValues})
  /\ [][(pc = "fetch" /\ pc' = "write" /\ gc'.src \in {"map", "default"}) =>
          /\ gc'.val = (IF carbon_map[LoopRegion] # None
                        THEN carbon_map[LoopRegion] ELSE Some(default_carbon))
          /\ gc'.src = "default" <=> carbon_map[LoopRegion] = None]_vars
C6_Witness ==
  /\ Returned /\ gc.src = "map"
  /\ ~cfg.em_enabled /\ gc.calledWt
  /\ gc.val # cfg.carbon_map[LoopRegion]
  /\ gc.val \in {Some(v) : v \in IngestValues}

\* C7: get_carbon always returns a value, and when it does not return from a
\* fresh cache entry it has written that value, with the time it took, into
\* the cache entry of the region before it returns.
C7_ReturnsAndCaches ==
  /\ [](Returned => gc.val # None)
  /\ [](pc = "write" => gc.val # None)
  /\ [][(Returned' /\ ~Returned /\ gc'.src # "cache") =>
          /\ pc = "write"
          /\ carbon_cache'[LoopRegion] = <<gc'.val[1], gc'.now>>]_vars
C7_Witness ==
  /\ Returned /\ gc.src = "default"
  /\ cfg.em_enabled /\ cfg.wt_enabled
  /\ carbon_cache[LoopRegion] = <<default_carbon, gc.now>>

\* C8: when the region has a cache entry with now - observed_at <
\* cache_ttl_seconds, get_carbon returns its value without calling a provider,
\* reading the fallback table or modifying the cache; so after a lookup that
\* went to the providers or the fallback table, the next such lookup comes no
\* sooner than cache_ttl_seconds after it.
C8_FreshEntryServed ==
  /\ [][(pc = "resolve" /\ pc' # "resolve" /\ carbon_cache[LoopRegion] # None
           /\ clock - carbon_cache[LoopRegion][2] < cfg.cache_ttl) =>
          /\ Returned'
          /\ gc'.val = Some(carbon_cache[LoopRegion][1])
          /\ gc'.src = "cache" /\ ~gc'.calledEm /\ ~gc'.calledWt
          /\ UNCHANGED <<carbon_cache, carbon_map, lastLookup>>]_vars
  /\ [][(pc = "resolve" /\ pc' = "fetch" /\ lastLookup # None) =>
          clock - lastLookup[1] >= cfg.cache_ttl]_vars
C8_Witness ==
  /\ Returned /\ gc.src = "cache"
  /\ lastLookup # None /\ gc.now >= lastLookup[1]
  /\ gc.val \in {Some(v) : v \in EmValues}

\* C9: the carbon value handed to the scorer was read from a cache entry less
\* than cache_ttl_seconds old, or was obtained from a provider or the fallback
\* table in the same get_carbon call.
C9_ScoredValueFresh ==
  Returned =>
    \/ /\ gc.src = "cache"
       /\ gc.obs # None
       /\ gc.now - gc.obs[1] < cfg.cache_ttl
    \/ /\ gc.src \in {"em", "wt", "map", "default"}
       /\ lastLookup = Some(gc.now)
       /\ gc.obs = None
C9_Witness ==
  /\ Returned /\ gc.src = "cache"
  /\ gc.obs # None /\ gc.now - gc.obs[1] = cfg.cache_ttl - 1
  /\ gc.now > 0

\* What a step of do_POST answers and writes: `ok` tells the bodies that are
\* to be accepted, `key` the region they are stored under.
PostAnswer(r, ok(_), key(_)) ==
  IF r.path # UpdatePath
  THEN resp' = Some(404) /\ UNCHANGED shared
  ELSE IF ~ok(r.body)
  THEN resp' = Some(400) /\ UNCHANGED shared
  ELSE /\ hpc' = "store"
       /\ resp' # Some(200)
       /\ carbon_map' = [carbon_map EXCEPT ![key(r.body)] = Some(r.body[3][2])]
       /\ UNCHANGED carbon_cache
PostContract(ok(_), key(_)) ==
  /\ \A r \in Requests : Post(r) => PostAnswer(r, ok, key)
  /\ (resp' = Some(200) /\ hpc = "store") =>
       /\ ok(hreq)
       /\ carbon_cache' = [carbon_cache EXCEPT ![key(hreq)] = <<hreq[3][2], clock>>]
       /\ UNCHANGED carbon_map
  /\ (resp' = Some(200) /\ resp' # resp) => hpc = "store"

NumericCarbon(b) == b[1] = "object" /\ b[3] # <<>> /\ b[3][1] \in {"num", "numstr"}
StatedWellFormed(b) == NumericCarbon(b) /\ b[2] # <<>> /\ b[2][1] = "str"
StatedKey(b) == b[2][2]
AcceptedBody(b) == NumericCarbon(b) /\ (b[2] = <<>> \/ b[2][1] = "str")
AcceptedKey(b) == IF b[2] = <<>> THEN "local" ELSE b[2][2]

\* C10 as stated: a POST /update_carbon whose body is malformed, lacks region
\* or carbon, or carries a non-numeric carbon is answered 400 and changes
\* neither the cache nor the fallback table; any other path is answered 404
\* and changes neither; only a well-formed request is answered 200 and
\* writes the entry of its region.
C10_RejectsIncomplete == [][PostContract(StatedWellFormed, StatedKey)]_vars

\* C10 amended: a body that is no JSON object, whose carbon is absent, null or
\* not convertible by float(), or whose region cannot be a dictionary key is
\* answered 400 and changes nothing; a POST to any other path is answered 404
\* and changes nothing; every other body is answered 200, a missing region
\* standing for "local", and writes that region's table and cache entries.
C10_RejectsUnusable == [][PostContract(AcceptedBody, AcceptedKey)]_vars
C10_Witness ==
  /\ hpc = "store" /\ hreq[2] = <<>>
  /\ carbon_map[LoopRegion] = Some(hreq[3][2])
  /\ carbon_map[LoopRegion] # cfg.carbon_map[LoopRegion]

\* C11: when reading the current replica count fails, the cycle issues no
\* patch call, the loop does not stop, and the cycle sleeps before the next
\* one starts.
C11_ReadFailureSleeps ==
  /\ [][(pc = "read" /\ pc' # "read" /\ cur' = None) =>
          (pc' = "sleep" /\ UNCHANGED <<replicas, patched>>)]_vars
  /\ []((pc = "sleep" /\ cur = None) => (patched = None /\ newr = None /\ ENABLED Sleep))
  /\ [][(pc = "sleep" /\ pc' # "sleep") => pc' = "measure"]_vars
C11_Witness ==
  /\ pc = "sleep" /\ cur = None /\ patched = None
  /\ p95 = Some(250) /\ replicas < cfg.max_replicas

HighLatency == p95 # None /\ p95[1] > slo_p95_ms
LowLatency == p95 # None /\ 10 * p95[1] < 6 * slo_p95_ms

\* C12: a failed patch does not stop the loop and the next cycle decides from
\* the count it has just read; so with reads and patches eventually
\* succeeding, the replica count eventually reaches max_replicas if every
\* measurement is above the target, and min_replicas if every measurement is
\* below 0.6 * target.
C12_ReachesBound ==
  /\ [][(pc = "patch" /\ pc' # "patch") => pc' = "sleep"]_vars
  /\ [](pc = "decide" => cur = Some(replicas))
  /\ ([](pc = "resolve" => HighLatency) => <>(replicas = cfg.max_replicas))
  /\ ([](pc = "resolve" => LowLatency) => <>(replicas = cfg.min_replicas))

\* C13: whatever the latency, the carbon value in the cache (readings posted
\* to the update endpoint included) and the configured cost per replica, the
\* slo, carbon and cost scores each lie in [0,1].
C13_ScoresInUnitRange ==
  scores # None =>
    /\ scores[1].slo >= 0 /\ scores[1].slo <= 1000
    /\ scores[1].carbon >= 0 /\ scores[1].carbon <= 1000
    /\ scores[1].cost >= 0 /\ scores[1].cost <= 1000

\* C14: the SLO score is 1.0 up to the target, 0.0 from 6 * target on, never
\* larger for a larger latency, and 0.5 when there is no measurement.
C14_SloScoreShape ==
  (pc = "read" /\ scores # None) =>
    /\ p95 = None => scores[1].slo = 500
    /\ (p95 # None /\ p95[1] <= slo_p95_ms) => scores[1].slo = 1000
    /\ (p95 # None /\ p95[1] >= 6 * slo_p95_ms) => scores[1].slo = 0
    /\ p95 # None =>
         \A l \in Latencies : l >= p95[1] => SloScore(Some(l)) <= scores[1].slo
C14_Witness ==
  /\ pc = "read" /\ scores # None
  /\ p95 = Some(1300) /\ scores[1].slo = 0

\* C15: the combined score is the configured weights applied to the three
\* scores, and lies within [0, w_slo + w_carbon + w_cost].
C15_CombinedWithinWeights ==
  scores # None =>
    LET w == cfg.weights
        sc == scores[1]
    IN /\ sc.combined = w.slo * sc.slo + w.carbon * sc.carbon + w.cost * sc.cost
       /\ sc.combined >= 0
       /\ sc.combined <= 1000 * (w.slo + w.carbon + w.cost)

\* C16: a configuration with min_replicas > max_replicas, or lacking a
\* required field, is rejected at startup: the loop never starts its first
\* cycle and issues neither a read nor a patch.
C16_InvalidConfigRejected ==
  (~cfg.complete \/ cfg.min_replicas > cfg.max_replicas) =>
    /\ pc \in {"exit", "measure"}
    /\ p95 = None /\ scores = None /\ cur = None /\ newr = None /\ patched = None

CycleEdges ==
  {<<"measure", "resolve">>, <<"resolve", "fetch">>, <<"resolve", "score">>,
   <<"fetch", "write">>, <<"write", "score">>, <<"score", "read">>,
   <<"read", "decide">>, <<"read", "sleep">>, <<"decide", "patch">>,
   <<"decide", "sleep">>, <<"patch", "sleep">>, <<"sleep", "measure">>}
HandlerStep == hpc' # hpc \/ resp' # resp \/ hreq' # hreq

\* C17: a cycle goes measure, resolve and score, read, decide, patch or not,
\* sleep, in that order; a patch is issued only after a successful read of
\* the same cycle and at most once per cycle, never by the update handler;
\* and every cycle reaches its sleep whatever upstream call fails.
C17_CycleOrder ==
  /\ [][pc' # pc => <<pc, pc'>> \in CycleEdges]_vars
  /\ [][patched' # patched =>
          \/ pc = "sleep" /\ patched' = None
          \/ pc = "patch" /\ cur # None /\ patched = None /\ patched' # None]_vars
  /\ [][replicas' # replicas => (pc = "patch" /\ patched = None)]_vars
  /\ [][HandlerStep => UNCHANGED <<replicas, patched, pc>>]_vars
  /\ [](pc = "measure" => <>(pc = "sleep"))
C17_Witness ==
  /\ pc = "sleep" /\ patched # None /\ replicas = patched[1]
  /\ lastIngest # None /\ p95 = Some(250)

\* Carbon values the resolver can hand to the scorer in some run.
AnyCarbon == EmValues \cup WtValues \cup IngestValues \cup OutOfBandValues \cup {default_carbon}
ScoresWith(v) == ComputeScores(p95, v, cfg.weights, cfg.cost_per_replica)
Decided == pc \in {"patch", "sleep"} /\ newr # None

\* C18: the replica decision does not depend on the carbon intensity or on a
\* score: whatever the cache, the providers and the update endpoint supplied
\* to the cycle, the count decided and the patch call issued are the ones
\* the same latency reading and replica read give under any other carbon
\* value.
C18_DecisionIgnoresCarbon ==
  /\ Decided =>
       \A v \in AnyCarbon :
         newr[1] = Policy(p95, cur[1], cfg.min_replicas, cfg.max_replicas, ScoresWith(v))
  /\ (pc = "sleep" /\ cur # None) =>
       \A v \in AnyCarbon :
         LET n == Policy(p95, cur[1], cfg.min_replicas, cfg.max_replicas, ScoresWith(v))
         IN patched = (IF ShouldPatch(n, cur[1]) THEN Some(n) ELSE None)
C18_Witness ==
  /\ pc = "sleep" /\ patched = Some(2) /\ cur = Some(1)
  /\ scores # None /\ scores[1].carbon_g = 50

\* C19: for every region the timestamp of the cache entry never decreases
\* from one write to the next, whether the resolver or the update handler
\* writes, and at each write it is the current time.
C19_TimestampsMonotone ==
  [][\A r \in Regions :
       carbon_cache'[r] # carbon_cache[r] =>
         /\ carbon_cache'[r][2] = clock'
         /\ carbon_cache[r] # None => carbon_cache'[r][2] >= carbon_cache[r][2]]_vars

\* The body the handler is working on during a step of its thread.
BodyInHand == IF hpc = "idle" THEN hreq' ELSE hreq
NoLocalUpdate == lastIngest = None /\ carbon_map[LoopRegion] = cfg.carbon_map[LoopRegion]

\* C20: an update for region R changes the cache entry and the table entry
\* of R only; and as the loop resolves "local" only, updates for other
\* regions never change the carbon value the loop scores and publishes.
C20_IngestFrame ==
  /\ [][HandlerStep =>
          /\ \A r \in Regions :
               (carbon_cache'[r] # carbon_cache[r] \/ carbon_map'[r] # carbon_map[r]) =>
                 (BodyInHand # None /\ RegionKey(BodyInHand[2]) = Some(r))
          /\ scores' = scores /\ gc'.val = gc.val]_vars
  /\ []((NoLocalUpdate /\ scores # None) =>
          scores[1].carbon_g \in EmValues \cup WtValues \cup {StartupFallback[1]})
C20_Witness ==
  /\ carbon_cache["eu"] # None /\ carbon_map["eu"] # None
  /\ NoLocalUpdate
  /\ pc = "read" /\ scores # None /\ scores[1].carbon_g = StartupFallback[1]

====
